---- MODULE Spec2Model ----
(***************************************************************************)
(* Same Game (src/same.js): the SameGame class as a state machine.         *)
(*                                                                         *)
(* The board is board[x][y] with [0][0] top-left; a column is modelled as  *)
(* a sequence, so the cell the source calls board[x][y] is board[x][y+1].  *)
(* A cell is a record [color, cluster]; color Null is the source's null,   *)
(* a colour 1..ncolors is an index into color_vocab.  A cluster is the     *)
(* source's array of [x, y] pairs, in the order the search pushed them.    *)
(***************************************************************************)
EXTENDS Integers, Sequences, FiniteSets, TLC

VARIABLES width, height, ncolors, board, hoverCluster, score, numCells,
          scoreLeft, scoreTotal, hoverScore, gameOver, last

vars == <<width, height, ncolors, board, hoverCluster, score, numCells,
          scoreLeft, scoreTotal, hoverScore, gameOver, last>>

(* ---- bounds of the model ---- *)
Width == 3
Height == 3
NColors == 2
BigWidth == 13
BigHeight == 4
FlipCols == 3
MaxPointer == 2
FairWidth == 3
FairHeight == 2

(* ---- program constants ---- *)
Null == 0
BonusCells == 50
BonusPerCell == 100

EmptyCell == [color |-> Null, cluster |-> <<>>]

(* The operators below are the methods of the class; w and h stand for     *)
(* this.width and this.height, which a method reads from the object.       *)
Cols(w) == 0 .. (w - 1)
Rows(h) == 0 .. (h - 1)

(* ---- randomBoard: every cell a colour of the palette, cluster [] ---- *)
(* rnd[x][y] is Math.floor(Math.random() * ncolors) + 1 of the cell        *)
Draws(w, h, nc) == [Cols(w) -> [1 .. h -> 1 .. nc]]

randomBoard(w, h, rnd) ==
  [x \in Cols(w) |-> [y \in 1 .. h |-> [color |-> rnd[x][y], cluster |-> <<>>]]]

(* ---- updateClusters ---- *)
(* st.ref[p] = 0 is "cluster undefined"; st.ref[p] = i > 0 means the cell  *)
(* holds a reference to the array st.arrs[i] (the members of a cluster     *)
(* share one array).                                                       *)
(* dfs that never explores the neighbour below *)
RECURSIVE dfsNoneBelow(_, _, _, _, _, _, _)
dfsNoneBelow(w, h, b, toVisit, st, id, color) ==
  IF Len(toVisit) = 0 THEN st
  ELSE
    LET p    == toVisit[Len(toVisit)]
        rest == SubSeq(toVisit, 1, Len(toVisit) - 1)
        ox   == p[1]
        oy   == p[2]
    IN  IF oy < 0 \/ oy = h \/ ox < 0 \/ ox = w
          THEN dfsNoneBelow(w, h, b, rest, st, id, color)
        ELSE IF st.ref[p] # 0 /\ Len(st.arrs[st.ref[p]]) > 0
          THEN dfsNoneBelow(w, h, b, rest, st, id, color)
        ELSE IF color = b[ox][oy + 1].color
          THEN dfsNoneBelow(w, h, b,
                   rest \o << <<ox - 1, oy>>, <<ox + 1, oy>>, <<ox, oy - 1>> >>,
                   [ref |-> [st.ref EXCEPT ![p] = id],
                    arrs |-> [st.arrs EXCEPT ![id] = Append(@, p)]],
                   id, color)
        ELSE dfsNoneBelow(w, h, b, rest, st, id, color)

RECURSIVE dfs(_, _, _, _, _, _, _)
dfs(w, h, b, toVisit, st, id, color) ==
  IF Len(toVisit) = 0 THEN st
  ELSE
    LET p    == toVisit[Len(toVisit)]
        rest == SubSeq(toVisit, 1, Len(toVisit) - 1)
        ox   == p[1]
        oy   == p[2]
    IN  IF oy < 0 \/ oy = h \/ ox < 0 \/ ox = w
          THEN dfs(w, h, b, rest, st, id, color)
        ELSE IF st.ref[p] # 0 /\ Len(st.arrs[st.ref[p]]) > 0
          THEN dfs(w, h, b, rest, st, id, color)
        ELSE IF color = b[ox][oy + 1].color
          THEN dfs(w, h, b,
                   rest \o << <<ox - 1, oy>>, <<ox + 1, oy>>,
                              <<ox, oy - 1>>, <<ox, oy + 1>> >>,
                   [ref |-> [st.ref EXCEPT ![p] = id],
                    arrs |-> [st.arrs EXCEPT ![id] = Append(@, p)]],
                   id, color)
        ELSE dfs(w, h, b, rest, st, id, color)

(* the inner loop: the cells x, x+1, ... of row y *)
RECURSIVE scanRow(_, _, _, _, _, _)
scanRow(w, h, b, y, x, st) ==
  IF ~ (x < w) THEN st
  ELSE
    LET p == <<x, y>>
    IN  IF st.ref[p] # 0 THEN scanRow(w, h, b, y, x + 1, st)
        ELSE
          LET id  == Len(st.arrs) + 1
              st1 == [ref |-> [st.ref EXCEPT ![p] = id],
                      arrs |-> Append(st.arrs, <<>>)]
          IN  IF b[x][y + 1].color = Null THEN scanRow(w, h, b, y, x + 1, st1)
              ELSE scanRow(w, h, b, y, x + 1,
                           dfs(w, h, b, << p >>, st1, id, b[x][y + 1].color))

(* the outer loop: the rows y, y+1, ... *)
RECURSIVE scan(_, _, _, _, _)
scan(w, h, b, y, st) ==
  IF ~ (y < h) THEN st
  ELSE scan(w, h, b, y + 1, scanRow(w, h, b, y, 0, st))

updateClusters(w, h, b) ==
  LET r == scan(w, h, b, 0, [ref |-> [p \in Cols(w) \X Rows(h) |-> 0], arrs |-> <<>>])
  IN  [x \in Cols(w) |-> [y \in 1 .. h |->
         [color |-> b[x][y].color, cluster |-> r.arrs[r.ref[<<x, y - 1>>]]]]]

(* ---- checkWin ---- *)
checkWin(w, h, b) ==
  \A y \in Rows(h) : \A x \in Cols(w) : ~ (Len(b[x][y + 1].cluster) # 0)

(* updateScore adding ntiles, not its square *)
updateScoreLinear(sc, n, ntiles) ==
  LET s  == sc + ntiles
      sl == IF (BonusCells - n) * BonusPerCell > 0
              THEN (BonusCells - n) * BonusPerCell ELSE 0
  IN  [score |-> s, scoreLeft |-> sl, scoreTotal |-> s + sl]

(* updateScore without the floor of 0 *)
updateScoreNoFloor(sc, n, ntiles) ==
  LET s  == sc + (ntiles * ntiles)
      sl == (BonusCells - n) * BonusPerCell
  IN  [score |-> s, scoreLeft |-> sl, scoreTotal |-> s + sl]

(* ---- updateScore ---- *)
updateScore(sc, n, ntiles) ==
  LET s  == sc + (ntiles * ntiles)
      sl == IF (BonusCells - n) * BonusPerCell > 0
              THEN (BonusCells - n) * BonusPerCell ELSE 0
  IN  [score |-> s, scoreLeft |-> sl, scoreTotal |-> s + sl]

(* updateHoverScore showing ntiles itself *)
updateHoverScoreLinear(ntiles) == ntiles

(* ---- updateHoverScore: the text of #hover ---- *)
updateHoverScore(ntiles) == ntiles * ntiles

(* ---- handleOut: only the page changes, hoverCluster is left as it is ---- *)
handleOutScore(hc, hs) == IF Len(hc) > 0 THEN updateHoverScore(0) ELSE hs

(* ---- updateGame ---- *)
updateGame(w, h, b, hc, sc, n, hs) ==
  LET hs1 == handleOutScore(hc, hs)
      s   == updateScore(sc, n, Len(hc))
      b1  == updateClusters(w, h, b)
  IN  [board |-> b1, hoverCluster |-> <<>>, score |-> s.score,
       scoreLeft |-> s.scoreLeft, scoreTotal |-> s.scoreTotal,
       hoverScore |-> hs1, gameOver |-> checkWin(w, h, b1)]

(* handleHover that never finds a group *)
hoverOfNone(b, ox, oy) == <<>>

(* handleHover keeping a one-cell cluster *)
hoverOfAny(b, ox, oy) ==
  LET c == b[ox][oy + 1].cluster
  IN  IF Len(c) > 0 THEN c ELSE <<>>

(* ---- handleHover ---- *)
hoverOf(b, ox, oy) ==
  LET c == b[ox][oy + 1].cluster
  IN  IF Len(c) > 1 THEN c ELSE <<>>

handleHoverState(b, ox, oy) ==
  LET hc == hoverOf(b, ox, oy)
  IN  [hoverCluster |-> hc, hoverScore |-> updateHoverScore(Len(hc))]

(* ---- handleClick: the work on one column, R -> L ---- *)
(* the comparator of an ascending sort *)
compareYsAscending(ax, bx) == ax - bx

(* the comparator handed to sort *)
compareYs(ax, bx) == bx - ax

RECURSIVE insertSorted(_, _)
insertSorted(s, v) ==
  IF s = <<>> THEN << v >>
  ELSE IF compareYs(v, Head(s)) < 0 THEN << v >> \o s
  ELSE << Head(s) >> \o insertSorted(Tail(s), v)

RECURSIVE sortYs(_)
sortYs(s) == IF s = <<>> THEN <<>> ELSE insertSorted(sortYs(Tail(s)), Head(s))

RECURSIVE mapY(_)
mapY(s) == IF s = <<>> THEN <<>> ELSE << Head(s)[2] >> \o mapY(Tail(s))

clusterYs(hc, x) ==
  LET InCol(p) == p[1] = x
  IN  sortYs(mapY(SelectSeq(hc, InCol)))

(* splice(y, 2) *)
spliceTwo(col, y) ==
  IF y >= 0 /\ y < Len(col)
    THEN SubSeq(col, 1, y) \o SubSeq(col, y + 3, Len(col))
    ELSE col

(* Array.prototype.splice(y, 1) *)
splice(col, y) ==
  IF y >= 0 /\ y < Len(col)
    THEN SubSeq(col, 1, y) \o SubSeq(col, y + 2, Len(col))
    ELSE col

(* removeCells without the numCells-- *)
RECURSIVE removeCellsUncounted(_, _, _)
removeCellsUncounted(col, n, ys) ==
  IF ys = <<>> THEN [col |-> col, numCells |-> n]
  ELSE removeCellsUncounted(splice(col, Head(ys)), n, Tail(ys))

RECURSIVE removeCells(_, _, _)
removeCells(col, n, ys) ==
  IF ys = <<>> THEN [col |-> col, numCells |-> n]
  ELSE removeCells(splice(col, Head(ys)), n - 1, Tail(ys))

(* the missing cells added under the column instead of on top of it *)
RECURSIVE addAtBottom(_, _)
addAtBottom(h, col) ==
  IF Len(col) < h THEN addAtBottom(h, col \o << EmptyCell >>) ELSE col

RECURSIVE addAtTop(_, _)
addAtTop(h, col) ==
  IF Len(col) < h THEN addAtTop(h, << EmptyCell >> \o col) ELSE col

(* the test of line 246 made on the top cell alone *)
colIsEmptyAtTop(col) == Len(col[1].cluster) = 0

colIsEmpty(col) == \A i \in 1 .. Len(col) : Len(col[i].cluster) = 0

(* moveColsLeft that leaves the last column as it was *)
RECURSIVE moveColsLeftKeepLast(_, _, _, _)
moveColsLeftKeepLast(w, h, b, mx) ==
  IF ~ (mx < w - 1) THEN b
  ELSE moveColsLeftKeepLast(w, h,
         [b EXCEPT ![mx] = [my \in 1 .. h |-> b[mx + 1][my]]],
         mx + 1)

RECURSIVE moveColsLeft(_, _, _, _)
moveColsLeft(w, h, b, mx) ==
  IF ~ (mx < w) THEN b
  ELSE moveColsLeft(w, h,
         [b EXCEPT ![mx] = [my \in 1 .. h |->
            IF mx < w - 1 THEN b[mx + 1][my] ELSE EmptyCell]],
         mx + 1)

(* the board after the removal and refill of column x, before the test    *)
(* for an emptied column                                                   *)
fallColumn(h, b, n, hc, x) ==
  LET r == removeCells(b[x], n, clusterYs(hc, x))
  IN  [board |-> [b EXCEPT ![x] = addAtTop(h, r.col)], numCells |-> r.numCells]

(* an emptied column left where it is *)
closeColumnNever(w, h, b, x) == b

closeColumn(w, h, b, x) == IF colIsEmpty(b[x]) THEN moveColsLeft(w, h, b, x) ELSE b

RECURSIVE removeCluster(_, _, _, _, _, _)
removeCluster(w, h, b, n, hc, x) ==
  IF ~ (x >= 0) THEN [board |-> b, numCells |-> n]
  ELSE LET f == fallColumn(h, b, n, hc, x)
       IN  removeCluster(w, h, closeColumn(w, h, f.board, x), f.numCells, hc, x - 1)

(* board[ox][oy].cluster of a cell off the board is a TypeError: the      *)
(* handler ends there, with what it had assigned so far                    *)
InRange(w, h, ox, oy) == ox \in Cols(w) /\ oy \in Rows(h)

(* handleClick without the call of handleHover at its end *)
clickStateNoHover(w, h, b, hc, sc, n, hs, ox, oy) ==
  LET r  == removeCluster(w, h, b, n, hc, w - 1)
      g  == updateGame(w, h, r.board, hc, sc, r.numCells, hs)
      hv == [hoverCluster |-> g.hoverCluster, hoverScore |-> g.hoverScore]
  IN  [board |-> g.board, numCells |-> r.numCells, score |-> g.score,
       scoreLeft |-> g.scoreLeft, scoreTotal |-> g.scoreTotal,
       gameOver |-> g.gameOver, hoverCluster |-> hv.hoverCluster,
       hoverScore |-> hv.hoverScore]

(* handleClick that leaves hoverCluster as it found it *)
clickStateStale(w, h, b, hc, sc, n, hs, ox, oy) ==
  LET r  == removeCluster(w, h, b, n, hc, w - 1)
      g  == updateGame(w, h, r.board, hc, sc, r.numCells, hs)
      hv == [hoverCluster |-> hc, hoverScore |-> g.hoverScore]
  IN  [board |-> g.board, numCells |-> r.numCells, score |-> g.score,
       scoreLeft |-> g.scoreLeft, scoreTotal |-> g.scoreTotal,
       gameOver |-> g.gameOver, hoverCluster |-> hv.hoverCluster,
       hoverScore |-> hv.hoverScore]

(* handleClick past its first line: the loop, updateGame, handleHover *)
clickState(w, h, b, hc, sc, n, hs, ox, oy) ==
  LET r  == removeCluster(w, h, b, n, hc, w - 1)
      g  == updateGame(w, h, r.board, hc, sc, r.numCells, hs)
      hv == IF InRange(w, h, ox, oy)
              THEN handleHoverState(g.board, ox, oy)
              ELSE [hoverCluster |-> g.hoverCluster, hoverScore |-> g.hoverScore]
  IN  [board |-> g.board, numCells |-> r.numCells, score |-> g.score,
       scoreLeft |-> g.scoreLeft, scoreTotal |-> g.scoreTotal,
       gameOver |-> g.gameOver, hoverCluster |-> hv.hoverCluster,
       hoverScore |-> hv.hoverScore]

(* ---- the constructor ---- *)
Construct(w, h, nc, b0) ==
  \E g \in { updateGame(w, h, b0, <<>>, 0, h * w, 0) } :
    /\ width = w
    /\ height = h
    /\ ncolors = nc
    /\ hoverCluster = g.hoverCluster
    /\ numCells = h * w
    /\ board = g.board
    /\ score = g.score
    /\ scoreLeft = g.scoreLeft
    /\ scoreTotal = g.scoreTotal
    /\ gameOver = g.gameOver
    /\ hoverScore = updateHoverScore(0)
    /\ last = [op |-> "new", x |-> 0, y |-> 0, board |-> g.board,
               hoverCluster |-> <<>>, score |-> 0, numCells |-> h * w]

Init ==
  \E rnd \in Draws(Width, Height, NColors) :
    Construct(Width, Height, NColors, randomBoard(Width, Height, rnd))

(* Draws of a board of more than BonusCells cells: no two neighbours       *)
(* alike, except that the first FlipCols cells of the top row take any     *)
(* colour.                                                                 *)
bigDraws(w, h, nc) ==
  { [x \in Cols(w) |-> [y \in 1 .. h |->
       IF y = 1 /\ x < FlipCols THEN f[x] ELSE ((x + y) % nc) + 1]] :
      f \in [0 .. (FlipCols - 1) -> 1 .. nc] }

InitBig ==
  \E rnd \in bigDraws(BigWidth, BigHeight, NColors) :
    Construct(BigWidth, BigHeight, NColors, randomBoard(BigWidth, BigHeight, rnd))

(* the cells the pointer visits *)
PointerXs == { x \in Cols(width) : x <= MaxPointer }
PointerYs == { y \in Rows(height) : y <= MaxPointer }

(* the state the handler was entered in *)
Entered(op, ox, oy) ==
  [op |-> op, x |-> ox, y |-> oy, board |-> board,
   hoverCluster |-> hoverCluster, score |-> score, numCells |-> numCells]

handleHover(ox, oy) ==
  IF InRange(width, height, ox, oy)
    THEN \E hv \in { handleHoverState(board, ox, oy) } :
           /\ hoverCluster' = hv.hoverCluster
           /\ hoverScore' = hv.hoverScore
           /\ last' = Entered("hover", ox, oy)
           /\ UNCHANGED <<width, height, ncolors, board, score, numCells,
                          scoreLeft, scoreTotal, gameOver>>
    ELSE /\ last' = Entered("hoverThrew", ox, oy)
         /\ UNCHANGED <<width, height, ncolors, board, hoverCluster, score,
                        numCells, scoreLeft, scoreTotal, hoverScore, gameOver>>

handleOut ==
  /\ hoverScore' = handleOutScore(hoverCluster, hoverScore)
  /\ last' = Entered("out", 0, 0)
  /\ UNCHANGED <<width, height, ncolors, board, hoverCluster, score,
                 numCells, scoreLeft, scoreTotal, gameOver>>

handleClick(ox, oy) ==
  /\ last' = Entered(IF Len(hoverCluster) >= 2 /\ ~ InRange(width, height, ox, oy)
                       THEN "clickThrew" ELSE "click", ox, oy)
  /\ UNCHANGED <<width, height, ncolors>>
  /\ IF Len(hoverCluster) < 2
       THEN UNCHANGED <<board, hoverCluster, score, numCells, scoreLeft,
                        scoreTotal, hoverScore, gameOver>>
       ELSE \E c \in { clickState(width, height, board, hoverCluster, score,
                                  numCells, hoverScore, ox, oy) } :
              /\ board' = c.board
              /\ numCells' = c.numCells
              /\ score' = c.score
              /\ scoreLeft' = c.scoreLeft
              /\ scoreTotal' = c.scoreTotal
              /\ gameOver' = c.gameOver
              /\ hoverCluster' = c.hoverCluster
              /\ hoverScore' = c.hoverScore

Next ==
  \/ \E ox \in PointerXs, oy \in PointerYs : handleHover(ox, oy)
  \/ handleOut
  \/ \E ox \in PointerXs, oy \in PointerYs : handleClick(ox, oy)

Spec == Init /\ [][Next]_vars

SpecBig == InitBig /\ [][Next]_vars

(* the handlers called with a coordinate one step off the board, on each   *)
(* of its four sides, as well as with the coordinates of its cells         *)
OffBoardPoints ==
  { <<0 - 1, 0>>, <<width, 0>>, <<0, 0 - 1>>, <<0, height>> }

NextAny ==
  \/ \E ox \in PointerXs, oy \in PointerYs : handleHover(ox, oy)
  \/ handleOut
  \/ \E ox \in PointerXs, oy \in PointerYs : handleClick(ox, oy)
  \/ \E p \in OffBoardPoints : handleHover(p[1], p[2])
  \/ \E p \in OffBoardPoints : handleClick(p[1], p[2])

SpecAny == Init /\ [][NextAny]_vars

(* the player of the rules (file header): as long as a group of two or     *)
(* more exists the pointer comes over one, and a hovered group is clicked  *)
HoverGroup ==
  \E ox \in PointerXs, oy \in PointerYs :
    handleHover(ox, oy) /\ Len(hoverCluster') >= 2

ClickGroup ==
  \E ox \in PointerXs, oy \in PointerYs :
    handleClick(ox, oy) /\ Len(hoverCluster) >= 2

InitFair ==
  \E rnd \in Draws(FairWidth, FairHeight, NColors) :
    Construct(FairWidth, FairHeight, NColors,
              randomBoard(FairWidth, FairHeight, rnd))

(* strong fairness of ClickGroup, with ENABLED <<ClickGroup>>_vars written  *)
(* as the guard of handleClick (line 223): a click on a hovered group       *)
(* always changes the board                                                 *)
ClickGroupFair ==
  \/ <>[] (Len(hoverCluster) < 2)
  \/ []<> <<ClickGroup>>_vars

SpecFair ==
  InitFair /\ [][Next]_vars /\ WF_vars(HoverGroup) /\ ClickGroupFair

(***************************************************************************)
(* What the properties are stated with.  None of it is taken from the      *)
(* methods above: colours are read off the board, components are closed    *)
(* under adjacency.                                                        *)
(***************************************************************************)
Cells(w, h) == Cols(w) \X Rows(h)
ColorAt(b, p) == b[p[1]][p[2] + 1].color
ClusterAt(b, p) == b[p[1]][p[2] + 1].cluster
Adjacent(p, q) ==
  \/ p[1] = q[1] /\ (p[2] = q[2] + 1 \/ q[2] = p[2] + 1)
  \/ p[2] = q[2] /\ (p[1] = q[1] + 1 \/ q[1] = p[1] + 1)
SeqSet(s) == { s[i] : i \in 1 .. Len(s) }
NoDuplicates(s) == \A i, j \in 1 .. Len(s) : s[i] = s[j] => i = j
NonEmptyCells(w, h, b) == { p \in Cells(w, h) : ColorAt(b, p) # Null }

RECURSIVE Grow(_, _, _, _)
Grow(w, h, b, S) ==
  LET T == S \cup { q \in Cells(w, h) :
                      \E p \in S : Adjacent(p, q) /\ ColorAt(b, q) = ColorAt(b, p) }
  IN  IF T = S THEN S ELSE Grow(w, h, b, T)

(* the maximal 4-connected same-colour group of a non-empty cell *)
Component(w, h, b, p) == Grow(w, h, b, {p})

HasAdjacentPair(w, h, b) ==
  \E p, q \in NonEmptyCells(w, h, b) : Adjacent(p, q) /\ ColorAt(b, p) = ColorAt(b, q)

(* the last handler called was a click that went past its first line *)
Removed == last.op = "click" /\ Len(last.hoverCluster) >= 2
RemovedSize == Len(last.hoverCluster)
ClickedCell == <<last.x, last.y>>

(* ---- C1 ---- *)
(* C1: the termination check holds exactly when no two 4-adjacent cells    *)
(* of the board share a non-empty colour.                                  *)
C1_TerminalIffNoAdjacentPair ==
  gameOver <=> ~ HasAdjacentPair(width, height, board)

(* ---- C2 ---- *)
(* C2: a click on a cell whose cluster has fewer than two cells changes    *)
(* neither the board (cluster map included), nor score, nor numCells.      *)
C2_ClickOnSingletonIsNoOp ==
  (last.op = "click" /\ Len(ClusterAt(last.board, ClickedCell)) < 2)
    => /\ board = last.board
       /\ score = last.score
       /\ numCells = last.numCells

(* ---- the collapse, stated on colours ---- *)
Colors(w, h, b) == [x \in Cols(w) |-> [y \in 1 .. h |-> b[x][y].color]]

(* the colours of a column that are neither removed (rows R) nor empty *)
RECURSIVE Keep(_, _, _)
Keep(col, R, i) ==
  IF i > Len(col) THEN <<>>
  ELSE (IF (i - 1) \notin R /\ col[i].color # Null THEN << col[i].color >> ELSE <<>>)
       \o Keep(col, R, i + 1)

SettledColumn(h, col, R) ==
  LET k == Keep(col, R, 1)
  IN  [i \in 1 .. h |-> IF i <= h - Len(k) THEN Null ELSE k[i - (h - Len(k))]]

RowsOf(S, x) == { p[2] : p \in { q \in S : q[1] = x } }

RECURSIVE NonEmptyColumns(_, _, _)
NonEmptyColumns(w, cols, x) ==
  IF x >= w THEN <<>>
  ELSE (IF \E i \in DOMAIN cols[x] : cols[x][i] # Null THEN << x >> ELSE <<>>)
       \o NonEmptyColumns(w, cols, x + 1)

(* delete the cells S, settle every column, drop the empty columns *)
Collapsed(w, h, b, S) ==
  LET cols == [x \in Cols(w) |-> SettledColumn(h, b[x], RowsOf(S, x))]
      ne   == NonEmptyColumns(w, cols, 0)
  IN  [x \in Cols(w) |->
         IF x < Len(ne) THEN cols[ne[x + 1]] ELSE [y \in 1 .. h |-> Null]]

(* ---- C3 ---- *)
(* C3: a click on a cell whose cluster has n >= 2 cells removes exactly    *)
(* the cells of that cluster and lowers numCells by n.                     *)
C3_ClickRemovesClickedCluster ==
  (last.op = "click" /\ Len(ClusterAt(last.board, ClickedCell)) >= 2)
    => /\ Colors(width, height, board) =
            Collapsed(width, height, last.board,
                      SeqSet(ClusterAt(last.board, ClickedCell)))
       /\ numCells = last.numCells - Len(ClusterAt(last.board, ClickedCell))

(* ---- C4 ---- *)
(* C4: the stored cluster map is the partition of the non-empty cells into *)
(* maximal 4-connected same-colour components: a non-empty cell's cluster  *)
(* lists the cells of its component once each, the members of a component  *)
(* hold the same cluster, a cell is listed by one cluster only, and an     *)
(* empty cell holds the empty cluster.                                     *)
C4_ClusterMapIsPartition ==
  \A p \in Cells(width, height) :
    IF ColorAt(board, p) = Null
      THEN ClusterAt(board, p) = <<>>
      ELSE /\ NoDuplicates(ClusterAt(board, p))
           /\ SeqSet(ClusterAt(board, p)) = Component(width, height, board, p)
           /\ \A q \in Component(width, height, board, p) :
                ClusterAt(board, q) = ClusterAt(board, p)
           /\ Cardinality({ ClusterAt(board, q) : q \in
                  { r \in Cells(width, height) : p \in SeqSet(ClusterAt(board, r)) } }) = 1

(* a removal has left empty cells, a cluster of three or more and a singleton *)
C4_Witness ==
  /\ Removed
  /\ \E p, q, r \in Cells(width, height) :
       /\ Len(ClusterAt(board, p)) >= 3
       /\ Len(ClusterAt(board, q)) = 1
       /\ ColorAt(board, r) = Null

(* ---- C5 ---- *)
(* C5: a removal of n cells lowers the number of non-empty cells by        *)
(* exactly n, and the board keeps width columns of height cells each.      *)
C5_SizeConserved ==
  /\ DOMAIN board = Cols(width)
  /\ \A x \in Cols(width) : DOMAIN board[x] = 1 .. height
  /\ Removed =>
       Cardinality(NonEmptyCells(width, height, board)) =
         Cardinality(NonEmptyCells(width, height, last.board)) - RemovedSize

(* a removal that emptied a column and let a cell fall, with cells left *)
C5_Witness ==
  /\ Removed
  /\ numCells > 0
  /\ \E x \in Cols(width) :
       /\ ColorAt(last.board, <<x, height - 1>>) # Null
       /\ \A y \in Rows(height) : <<x, y>> \in SeqSet(last.hoverCluster)
  /\ \E x \in Cols(width), y \in Rows(height) :
       /\ <<x, y>> \notin SeqSet(last.hoverCluster)
       /\ ColorAt(last.board, <<x, y>>) # Null
       /\ \E y2 \in Rows(height) : y2 > y /\ <<x, y2>> \in SeqSet(last.hoverCluster)

(* ---- C6 ---- *)
(* C6: numCells is width*height after construction and is always the       *)
(* number of non-empty cells of the board, never negative.                 *)
C6_NumCellsCountsBoard ==
  /\ numCells = Cardinality(NonEmptyCells(width, height, board))
  /\ numCells >= 0
  /\ last.op = "new" => numCells = width * height

C6_Witness ==
  /\ Removed
  /\ numCells > 0
  /\ numCells + RemovedSize = last.numCells
  /\ last.numCells < width * height

(* ---- C7 ---- *)
(* C7: score is 0 after construction, never decreases, grows by n*n on a   *)
(* click that removes n cells and is left alone by every other call.       *)
C7_ScoreGrowsBySquares ==
  /\ last.op = "new" => score = 0
  /\ score >= last.score
  /\ Removed => score = last.score + RemovedSize * RemovedSize
  /\ (last.op # "new" /\ ~ Removed) => score = last.score

(* a second removal: the score before it was already positive *)
C7_Witness ==
  /\ Removed
  /\ last.score > 0
  /\ score > last.score

(* ---- C8 ---- *)
(* C8: scoreLeft is max(0, (50 - numCells) * 100) of the current numCells, *)
(* 0 while 50 cells or more remain, and scoreTotal is score + scoreLeft.   *)
C8_BonusFromCellsLeft ==
  /\ scoreLeft = IF numCells < BonusCells
                   THEN (BonusCells - numCells) * BonusPerCell ELSE 0
  /\ numCells >= BonusCells => scoreLeft = 0
  /\ scoreTotal = score + scoreLeft

(* a removal that took the board from 50 cells or more to fewer than 50 *)
C8_Witness ==
  /\ Removed
  /\ last.numCells >= BonusCells
  /\ numCells < BonusCells
  /\ scoreLeft > 0
  /\ score > 0

(* ---- the loop of handleClick, column by column ---- *)
(* the board and numCells with which the loop reaches column x *)
RECURSIVE EnterColumn(_, _, _, _, _, _)
EnterColumn(w, h, b, n, hc, x) ==
  IF x >= w - 1 THEN [board |-> b, numCells |-> n]
  ELSE LET e == EnterColumn(w, h, b, n, hc, x + 1)
           f == fallColumn(h, e.board, e.numCells, hc, x + 1)
       IN  [board |-> closeColumn(w, h, f.board, x + 1), numCells |-> f.numCells]

AfterFall(w, h, b, n, hc, x) ==
  LET e == EnterColumn(w, h, b, n, hc, x)
  IN  fallColumn(h, e.board, e.numCells, hc, x).board

AfterClose(w, h, b, n, hc, x) == closeColumn(w, h, AfterFall(w, h, b, n, hc, x), x)

ColumnHasNoColor(h, col) == \A y \in 1 .. h : col[y].color = Null

(* ---- C9 ---- *)
(* C9: when the removal and refill of column x leaves it fully empty, the  *)
(* columns right of x each move one place left, cell for cell, the last    *)
(* column becomes empty and the columns left of x stay as they are; the    *)
(* board the click leaves is the one after column 0.                       *)
CompactionAt(w, h, b, n, hc, x) ==
  LET b1 == AfterFall(w, h, b, n, hc, x)
      b2 == AfterClose(w, h, b, n, hc, x)
  IN  ColumnHasNoColor(h, b1[x]) =>
        /\ \A c \in Cols(w) : (c >= x /\ c < w - 1) => b2[c] = b1[c + 1]
        /\ ColumnHasNoColor(h, b2[w - 1])
        /\ \A c \in Cols(w) : c < x => b2[c] = b1[c]

C9_CompactionShiftsLeft ==
  Removed =>
    /\ \A x \in Cols(width) :
         CompactionAt(width, height, last.board, last.numCells, last.hoverCluster, x)
    /\ Colors(width, height, board) =
         Colors(width, height,
                AfterClose(width, height, last.board, last.numCells,
                           last.hoverCluster, 0))

(* the removal emptied a column that has a non-empty column on either side *)
EmptiedBetween(w, h, b, n, hc) ==
  \E x \in Cols(w) :
    LET b1 == AfterFall(w, h, b, n, hc, x)
    IN  /\ x > 0
        /\ x < w - 1
        /\ ColumnHasNoColor(h, b1[x])
        /\ ~ ColumnHasNoColor(h, b1[x - 1])
        /\ ~ ColumnHasNoColor(h, b1[x + 1])

C9_Witness ==
  /\ Removed
  /\ EmptiedBetween(width, height, last.board, last.numCells, last.hoverCluster)

(* ---- C10 ---- *)
(* C10: after a removal every surviving cell of a column lies lower by the *)
(* number of removed cells that were below it in that column (its column   *)
(* moved left by the number of columns the removal emptied left of it), so *)
(* a cell with no removed cell below it keeps its row; above the survivors *)
(* the column is empty.                                                    *)
RemovedBelow(S, p) == Cardinality({ q \in S : q[1] = p[1] /\ q[2] > p[2] })

Survivors(w, h, b, S) == { p \in NonEmptyCells(w, h, b) : p \notin S }

EmptiedLeftOf(w, h, b, S, x) ==
  Cardinality({ c \in Cols(w) :
                  c < x /\ \A y \in Rows(h) : <<c, y>> \notin Survivors(w, h, b, S) })

Landing(w, h, b, S, p) ==
  << p[1] - EmptiedLeftOf(w, h, b, S, p[1]), p[2] + RemovedBelow(S, p) >>

GravityHolds(w, h, b, S, after) ==
  /\ \A p \in Survivors(w, h, b, S) :
       ColorAt(after, Landing(w, h, b, S, p)) = ColorAt(b, p)
  /\ \A p, q \in Survivors(w, h, b, S) :
       (p[1] = q[1] /\ p[2] < q[2]) =>
         /\ Landing(w, h, b, S, p)[1] = Landing(w, h, b, S, q)[1]
         /\ Landing(w, h, b, S, p)[2] < Landing(w, h, b, S, q)[2]
  /\ \A p \in Survivors(w, h, b, S) :
       \A y \in Rows(h) :
         y < h - Cardinality({ q \in Survivors(w, h, b, S) : q[1] = p[1] })
           => ColorAt(after, << Landing(w, h, b, S, p)[1], y >>) = Null

C10_GravityWithinColumn ==
  Removed =>
    GravityHolds(width, height, last.board, SeqSet(last.hoverCluster), board)

(* in one column a cell fell past a removed cell and a cell below the      *)
(* removed cell stayed                                                     *)
C10_Witness ==
  /\ Removed
  /\ \E p, q \in Survivors(width, height, last.board, SeqSet(last.hoverCluster)) :
       /\ p[1] = q[1]
       /\ RemovedBelow(SeqSet(last.hoverCluster), p) > 0
       /\ RemovedBelow(SeqSet(last.hoverCluster), q) = 0
       /\ <<q[1], q[2] - 1>> \in SeqSet(last.hoverCluster)

(* ---- C11 ---- *)
(* the cluster a hover of cell p is to leave in hoverCluster *)
PreviewOf(b, p) == IF Len(ClusterAt(b, p)) >= 2 THEN ClusterAt(b, p) ELSE <<>>

C12_OutClearsHover ==
  last.op = "out" => hoverCluster = <<>>

(* ---- C13 ---- *)
(* C13: a hover or a click with a coordinate off the board is signalled as *)
(* an error and changes neither board, score, numCells nor hoverCluster.   *)
OffBoard == ~ InRange(width, height, last.x, last.y)

C13_OffBoardIsSignalledNoOp ==
  (last.op \in {"hover", "hoverThrew", "click", "clickThrew"} /\ OffBoard)
    => /\ last.op \in {"hoverThrew", "clickThrew"}
       /\ board = last.board
       /\ score = last.score
       /\ numCells = last.numCells
       /\ hoverCluster = last.hoverCluster

(* ---- C14 ---- *)
(* C14: if the player keeps removing a group while one exists, a board     *)
(* with no group of two or more cells is eventually reached; every click   *)
(* that changes the board lowers numCells by at least 2, and numCells      *)
(* stays within 0 .. width*height, so at most (width*height) \div 2        *)
(* clicks change the board.                                                *)
NoGroupLeft == ~ HasAdjacentPair(width, height, board)

C14_GameEnds ==
  /\ <> NoGroupLeft
  /\ [] ((last.op = "click" /\ board # last.board)
           => last.numCells - numCells >= 2)
  /\ [] (numCells \in 0 .. (width * height))

C14_Witness ==
  /\ Removed
  /\ HasAdjacentPair(width, height, last.board)
  /\ NoGroupLeft
  /\ numCells > 0

(* ---- C15 ---- *)
(* C15: the board a removing click leaves is the reference collapse of the *)
(* board it found: the cells of the removed cluster deleted, every column  *)
(* settled with its survivors in order at the bottom, the fully empty      *)
(* columns dropped and the others kept in order with empty columns on the  *)
(* right; also when the move empties several columns, adjacent or not.     *)
C15_MoveIsReferenceCollapse ==
  Removed =>
    Colors(width, height, board) =
      Collapsed(width, height, last.board, SeqSet(last.hoverCluster))

(* column x of the board the click found had cells, all of them removed *)
FullyRemoved(x) ==
  /\ \E y \in Rows(height) : ColorAt(last.board, <<x, y>>) # Null
  /\ \A y \in Rows(height) :
       ColorAt(last.board, <<x, y>>) # Null
         => <<x, y>> \in SeqSet(last.hoverCluster)

HasSurvivor(x) ==
  \E y \in Rows(height) :
    /\ ColorAt(last.board, <<x, y>>) # Null
    /\ <<x, y>> \notin SeqSet(last.hoverCluster)

C15_Witness ==
  /\ Removed
  /\ \E x, m, z \in Cols(width) :
       /\ x < m /\ m < z
       /\ FullyRemoved(x) /\ HasSurvivor(m) /\ FullyRemoved(z)

(* ---- C16 ---- *)
(* C16: after a removing click on (x,y), hoverCluster is the cluster that  *)
(* now holds (x,y) on the collapsed board if it has two or more cells, and *)
(* empty otherwise: it is never the list of the cluster just removed.      *)
C16_HoverRederivedAfterClick ==
  Removed => hoverCluster = PreviewOf(board, ClickedCell)

C16_Witness ==
  /\ Removed
  /\ Len(hoverCluster) >= 2
  /\ hoverCluster # last.hoverCluster

(* ---- C17 ---- *)
(* C17: hoverCluster is always empty or exactly one cluster of two or more *)
(* cells of the current board: its positions are on the board, without     *)
(* duplicates, non-empty, of one colour, and each of them has hoverCluster *)
(* as its cluster, which is the whole connected group.                     *)
C17_HoverClusterIsCurrent ==
  \/ hoverCluster = <<>>
  \/ /\ Len(hoverCluster) >= 2
     /\ NoDuplicates(hoverCluster)
     /\ \A q \in SeqSet(hoverCluster) :
          /\ q \in Cells(width, height)
          /\ ColorAt(board, q) # Null
          /\ ColorAt(board, q) = ColorAt(board, hoverCluster[1])
          /\ ClusterAt(board, q) = hoverCluster
     /\ SeqSet(hoverCluster) = Component(width, height, board, hoverCluster[1])

C17_Witness ==
  /\ last.op = "out"
  /\ Len(hoverCluster) >= 2
  /\ numCells < width * height

(* ---- C18 ---- *)
(* C18: in every state no column has an empty cell below a non-empty one.  *)
C18_GravitySettled ==
  \A x \in Cols(width) : \A y1, y2 \in Rows(height) :
    (y1 < y2 /\ ColorAt(board, <<x, y1>>) # Null)
      => ColorAt(board, <<x, y2>>) # Null

C18_Witness ==
  /\ Removed
  /\ \E x \in Cols(width) : \E y1, y2 \in Rows(height) :
       /\ y1 < y2
       /\ ColorAt(board, <<x, y1>>) = Null
       /\ ColorAt(board, <<x, y2>>) # Null
       /\ ColorAt(last.board, <<x, y1>>) # Null
       /\ <<x, y2>> \in SeqSet(last.hoverCluster)

(* ---- C19 ---- *)
(* C19: in every state no fully empty column lies left of a column with a  *)
(* non-empty cell, also after a move that empties more than one column.    *)
C19_LeftPacked ==
  \A x1, x2 \in Cols(width) :
    (x1 < x2 /\ ~ ColumnHasNoColor(height, board[x2]))
      => ~ ColumnHasNoColor(height, board[x1])

C19_Witness ==
  /\ Removed
  /\ \E x, z \in Cols(width) :
       /\ x + 1 < z
       /\ FullyRemoved(x) /\ FullyRemoved(x + 1) /\ HasSurvivor(z)

(* ---- C20 ---- *)
(* C20: from a board without a group of two or more cells no handler call  *)
(* changes board, score, scoreLeft, scoreTotal or numCells, and every      *)
(* hover leaves hoverCluster empty.                                        *)
C20_TerminalIsAbsorbing ==
  [][ NoGroupLeft =>
        /\ UNCHANGED <<board, score, scoreLeft, scoreTotal, numCells>>
        /\ (last'.op = "hover" => hoverCluster' = <<>>) ]_vars

C20_Witness ==
  /\ NoGroupLeft
  /\ ~ HasAdjacentPair(width, height, last.board)
  /\ last.op = "click"
  /\ numCells > 0
  /\ score > 0

====
